---- MODULE Spec2Model ----
(***************************************************************************)
(* endrawing.py: General Arrangement drawings for the buildings of an IFC  *)
(* model.  The IFC file is the state: its buildings, storeys, spaces and   *)
(* elements (read only), its representation contexts, and the documents,   *)
(* document references, annotations and groups the generator adds.         *)
(* Strings are sequences of one-character (or one-word) tokens, so that    *)
(* formatting, zero padding and natural sorting are computed.              *)
(***************************************************************************)
EXTENDS Integers, Sequences, FiniteSets, TLC

VARIABLES
    hosted,        \* TRUE iff "import bonsai.tool" succeeds in this process
    argv,          \* sys.argv: the program name, then the arguments
    ifc,           \* the IFC model: buildings (with their storeys, spaces and
                   \* elements), contexts, and the entities the generator adds:
                   \* docs (IfcDocumentInformation), refs (IfcDocumentReference),
                   \* rels (IfcRelAssociatesDocument), annotations, groups
    pc,            \* position in main / DrawingGenerator
    mode,          \* "try" (the try body of main) or "except" (its except body)
    exc,           \* the exception that ended the process, or None
    events,        \* the externally visible events of main, in order
    gen,           \* the DrawingGenerator object (self)
    loc,           \* the locals of generate_drawings
    ctx_rets,      \* what each direct call of ensure_contexts returned
    bbox_arg,      \* the spatial elements of a direct call of get_bbox
    bbox_out       \* what that call returned

vars == <<hosted, argv, ifc, pc, mode, exc, events, gen, loc, ctx_rets, bbox_arg, bbox_out>>

(***************************************************************************)
(* Bounds of the model.                                                    *)
(***************************************************************************)
MaxBuildings == 2
MaxArgs == 3
MaxCalls == 3
MaxItems == 3
MaxCoord == 2

None == "None"

(***************************************************************************)
(* Strings.                                                                *)
(***************************************************************************)
Digits == <<"0", "1", "2", "3", "4", "5", "6", "7", "8", "9">>

IsDigit(c) == \E i \in 1..10 : Digits[i] = c

DigitVal(c) == (CHOOSE i \in 1..10 : Digits[i] = c) - 1

\* Code points of the characters that occur in names.
Ord(c) ==
    CASE c = " " -> 32
      [] IsDigit(c) -> 48 + DigitVal(c)
      [] c = "A" -> 65
      [] c = "B" -> 66
      [] c = "F" -> 70
      [] c = "G" -> 71
      [] OTHER -> 90

RECURSIVE Str(_)
\* str(n) for a natural number n
Str(n) == IF n < 10 THEN <<Digits[n + 1]>> ELSE Str(n \div 10) \o <<Digits[(n % 10) + 1]>>

RECURSIVE ZFill(_, _)
\* s.zfill(width)
ZFill(s, width) == IF Len(s) >= width THEN s ELSE ZFill(<<"0">> \o s, width)

(***************************************************************************)
(* natsort.natsorted(..., key=lambda x: x.Name): a name is split into      *)
(* alternating text and number chunks, beginning with a (possibly empty)   *)
(* text chunk; chunks compare as strings or as integers, keys as tuples.   *)
(***************************************************************************)
TextChunk(s) == [num |-> FALSE, n |-> 0, s |-> s]

NumChunk(n) == [num |-> TRUE, n |-> n, s |-> <<>>]

RECURSIVE NatSplit(_, _)
NatSplit(s, acc) ==
    IF s = <<>> THEN acc
    ELSE LET c == Head(s)
             k == Len(acc)
             last == acc[k]
         IN  IF IsDigit(c)
             THEN IF last.num
                  THEN NatSplit(Tail(s), [acc EXCEPT ![k].n = @ * 10 + DigitVal(c)])
                  ELSE NatSplit(Tail(s), Append(acc, NumChunk(DigitVal(c))))
             ELSE IF last.num
                  THEN NatSplit(Tail(s), Append(acc, TextChunk(<<c>>)))
                  ELSE NatSplit(Tail(s), [acc EXCEPT ![k].s = Append(@, c)])

NatKey(name) == NatSplit(name, <<TextChunk(<<>>)>>)

\* Python's < on sequences: the first differing position decides, a proper
\* prefix is smaller.
StrLess(s, t) ==
    \E k \in 1..(Len(s) + 1) :
        /\ k <= Len(t)
        /\ \A i \in 1..(k - 1) : s[i] = t[i]
        /\ \/ k = Len(s) + 1
           \/ k <= Len(s) /\ Ord(s[k]) < Ord(t[k])

ChunkLess(c, d) == IF c.num /\ d.num THEN c.n < d.n ELSE StrLess(c.s, d.s)

KeyLess(a, b) ==
    \E k \in 1..(Len(a) + 1) :
        /\ k <= Len(b)
        /\ \A i \in 1..(k - 1) : a[i] = b[i]
        /\ \/ k = Len(a) + 1
           \/ k <= Len(a) /\ ChunkLess(a[k], b[k])

\* a sorts strictly before b under the natsort key
NameBefore(a, b) == KeyLess(NatKey(a), NatKey(b))

Injections(S) == {f \in [1..Cardinality(S) -> S] : \A i, j \in DOMAIN f : f[i] = f[j] => i = j}

\* A plain sorted(..., key=lambda x: x.Name) in place of natsorted.
PlainSorted(bs) ==
    CHOOSE p \in Injections(DOMAIN bs) :
        \A i, j \in DOMAIN p :
            i < j => /\ ~StrLess(bs[p[j]].Name, bs[p[i]].Name)
                     /\ (~StrLess(bs[p[i]].Name, bs[p[j]].Name) => p[i] < p[j])

\* natsorted(ifc_file.by_type("IfcBuilding"), key=lambda x: x.Name): the
\* buildings, as references into the file, in key order; sorted() is stable.
Natsorted(bs) ==
    CHOOSE p \in Injections(DOMAIN bs) :
        \A i, j \in DOMAIN p :
            i < j => /\ ~NameBefore(bs[p[j]].Name, bs[p[i]].Name)
                     /\ (~NameBefore(bs[p[i]].Name, bs[p[j]].Name) => p[i] < p[j])

(***************************************************************************)
(* The selector and placement utilities, on the file's buildings.  An      *)
(* element is referenced as <<building, index>>; so is a storey.           *)
(***************************************************************************)
\* filter_elements(ifc_file, 'IfcElement, location="<name>"'): a set
FilterElements(bs, name) ==
    UNION {{<<b, i>> : i \in DOMAIN bs[b].elements} : b \in {c \in DOMAIN bs : bs[c].Name = name}}

\* filter_elements(ifc_file, 'IfcBuildingStorey, location="<name>"'): a set
FilterStoreys(bs, name) ==
    UNION {{<<b, i>> : i \in DOMAIN bs[b].storeys} : b \in {c \in DOMAIN bs : bs[c].Name = name}}

\* get_local_placement(item.ObjectPlacement): the translation column
Placement(bs, e) == bs[e[1]].elements[e[2]]

StoreyOf(bs, s) == bs[s[1]].storeys[s[2]]

(***************************************************************************)
(* GeometryUtils.get_bbox.  The selector returns a set, so the order in    *)
(* which its elements are visited is not determined by the code: get_bbox  *)
(* is computed on a visiting order, and VisitOrders gives the possible     *)
(* ones.                                                                   *)
(***************************************************************************)
Min2(a, b) == IF a < b THEN a ELSE b

Max2(a, b) == IF a > b THEN a ELSE b

\* a / 2 in floating point, kept exact as a fraction
Half(a) == [num |-> a, den |-> 2]

RECURSIVE BBoxLoop(_, _, _)
\* lines 100-127, over the placements in visiting order
BBoxLoop(items, bbox_min, bbox_max) ==
    IF items = <<>> THEN <<bbox_min, bbox_max>>
    ELSE LET p == Head(items)
             x == p[1]
             y == p[2]
             z == p[3]
         IN  IF x = 0 \/ y = 0 THEN BBoxLoop(Tail(items), bbox_min, bbox_max)
             ELSE IF bbox_min = <<>> THEN BBoxLoop(Tail(items), <<x, y, z>>, bbox_max)
             ELSE IF bbox_max = <<>> THEN BBoxLoop(Tail(items), bbox_min, <<x, y, z>>)
             ELSE BBoxLoop(Tail(items),
                           <<Min2(bbox_min[1], x), Min2(bbox_min[2], y), Min2(bbox_min[3], z)>>,
                           <<Max2(bbox_max[1], x), Max2(bbox_max[2], y), Max2(bbox_max[3], z)>>)

\* get_bbox on the placements in visiting order: the (min, mid, max) triple,
\* or IndexError from bbox_min[0] or bbox_max[0] of an empty list (line 131).
GetBBox(items) ==
    LET r == BBoxLoop(items, <<>>, <<>>)
        mn == r[1]
        mx == r[2]
    IN  IF mn = <<>> \/ mx = <<>>
        THEN [raised |-> "IndexError", min |-> <<>>, mid |-> <<>>, max |-> <<>>]
        ELSE [raised |-> None, min |-> mn,
              mid |-> <<Half(mn[1] + mx[1]), Half(mn[2] + mx[2]), Half(mn[3] + mx[3])>>,
              max |-> mx]

RECURSIVE VisitOrders(_, _)
\* The sequences of placements the two loops of get_bbox can visit for the
\* list `spatial` of building references.
VisitOrders(bs, spatial) ==
    IF spatial = <<>> THEN {<<>>}
    ELSE LET items == FilterElements(bs, bs[Head(spatial)].Name)
         IN  {[i \in 1..Cardinality(items) |-> Placement(bs, f[i])] \o rest :
                 f \in Injections(items), rest \in VisitOrders(bs, Tail(spatial))}

(***************************************************************************)
(* Representation contexts and ContextManager.ensure_contexts.             *)
(***************************************************************************)
CtxClass == "IfcGeometricRepresentationContext"

SubClass == "IfcGeometricRepresentationSubContext"

Context(id, type) ==
    [id |-> id, class |-> CtxClass, ContextIdentifier |-> None, ContextType |-> type,
     TargetView |-> None, ParentContext |-> 0]

SubContext(id, ident, type, view, parent) ==
    [id |-> id, class |-> SubClass, ContextIdentifier |-> ident, ContextType |-> type,
     TargetView |-> view, ParentContext |-> parent]

NextId(ctxs) == IF ctxs = <<>> THEN 1 ELSE ctxs[Len(ctxs)].id + 1

Matches(ctxs, context, subcontext) ==
    {i \in DOMAIN ctxs :
        /\ ctxs[i].class = (IF subcontext # None THEN SubClass ELSE CtxClass)
        /\ ctxs[i].ContextType = context
        /\ subcontext # None => ctxs[i].ContextIdentifier = subcontext}

\* ifcopenshell.util.representation.get_context(ifc_file, context, subcontext):
\* the id of the first matching entity, 0 for None
GetContext(ctxs, context, subcontext) ==
    LET m == Matches(ctxs, context, subcontext)
    IN  IF m = {} THEN 0 ELSE ctxs[CHOOSE i \in m : \A j \in m : i <= j].id

\* ensure_contexts without its "if not annotation_context" test.
EnsureContextsNoTest(ctxs) ==
    LET model_context == GetContext(ctxs, "Model", None)
        plan0 == GetContext(ctxs, "Plan", None)
        ctxs1 == IF plan0 = 0 THEN Append(ctxs, Context(NextId(ctxs), "Plan")) ELSE ctxs
        plan_context == IF plan0 = 0 THEN NextId(ctxs) ELSE plan0
    IN  IF plan0 = 0 /\ model_context = 0
        THEN [raised |-> "AttributeError", file |-> ctxs, ret |-> <<>>]
        ELSE [raised |-> None,
              file |-> Append(ctxs1, SubContext(NextId(ctxs1), "Annotation", "Plan",
                                                "PLAN_VIEW", plan_context)),
              ret |-> [model |-> model_context, plan |-> plan_context,
                       annotation |-> NextId(ctxs1)]]

\* ContextManager.ensure_contexts(ifc_file): the file's contexts afterwards
\* and the returned dictionary, or AttributeError from
\* model_context.WorldCoordinateSystem when there is no Model context.
EnsureContexts(ctxs) ==
    LET model_context == GetContext(ctxs, "Model", None)
        plan0 == GetContext(ctxs, "Plan", None)
        raises == plan0 = 0 /\ model_context = 0
        ctxs1 == IF plan0 = 0 THEN Append(ctxs, Context(NextId(ctxs), "Plan")) ELSE ctxs
        plan_context == IF plan0 = 0 THEN NextId(ctxs) ELSE plan0
        annot0 == GetContext(ctxs1, "Plan", "Annotation")
        ctxs2 == IF annot0 = 0
                 THEN Append(ctxs1, SubContext(NextId(ctxs1), "Annotation", "Plan",
                                               "PLAN_VIEW", plan_context))
                 ELSE ctxs1
        annotation_context == IF annot0 = 0 THEN NextId(ctxs1) ELSE annot0
    IN  IF raises
        THEN [raised |-> "AttributeError", file |-> ctxs, ret |-> <<>>]
        ELSE [raised |-> None, file |-> ctxs2,
              ret |-> [model |-> model_context, plan |-> plan_context,
                       annotation |-> annotation_context]]

(***************************************************************************)
(* The entities DrawingGenerator adds to the file.  A document, reference, *)
(* annotation or group is referenced by its index in the file's list.      *)
(***************************************************************************)
Project == <<"IfcProject">>

\* self.titleblock, the default of __init__
Titleblock == <<"A2">>

\* self.scale, the default of __init__
Scale == 100

\* f"drawings/{annotation.Name}.svg"
DrawingPath(name) == <<"drawings/">> \o name \o <<".svg">>

\* f"layouts/{identification} - {building_name}.svg"
LayoutPath(identification, building_name) ==
    <<"layouts/">> \o identification \o <<" - ">> \o building_name \o <<".svg">>

\* f"layouts/titleblocks/{self.titleblock}.svg"
TitleblockPath == <<"layouts/titleblocks/">> \o Titleblock \o <<".svg">>

DocInfo(identification, name, description, purpose) ==
    [Identification |-> identification, Name |-> name, Description |-> description,
     Purpose |-> purpose]

DocRef(location, identification, description, document) ==
    [Location |-> location, Identification |-> identification,
     Description |-> description, ReferencedDocument |-> document]

Annotation(name, type, pset, view, scale, include, product) ==
    [Name |-> name, ObjectType |-> type, pset |-> pset, TargetView |-> view,
     Scale |-> scale, Include |-> include, product |-> product]

\* create_drawing_pset and the edit_pset that follows it in each create_*:
\* an annotation with ObjectType DRAWING and its EPset_Drawing
DrawingAnnotation(name, view, scale, include) ==
    Annotation(name, <<"DRAWING">>, "EPset_Drawing", view, <<"1", "/">> \o Str(scale), include, None)

\* create_drawing_group: a group named after the annotation, holding it
CreateDrawingGroup(f, annotation) ==
    [f EXCEPT !.groups = Append(@, [Name |-> f.annotations[annotation].Name,
                                    ObjectType |-> <<"DRAWING">>,
                                    products |-> <<annotation>>])]

\* attach_sheet(annotation, sheet_info, drawing_id)
AttachSheet(f, annotation, sheet_info, drawing_id) ==
    LET name == f.annotations[annotation].Name
        info == Len(f.docs) + 1
        path_drawing == DrawingPath(name)
        ref == Len(f.refs) + 1
    IN  [f EXCEPT
            !.docs = Append(@, DocInfo(name, name, None, "DRAWING")),
            !.rels = @ \o <<[RelatedObjects |-> Project, RelatingDocument |-> <<"info", info>>],
                            [RelatedObjects |-> <<annotation>>, RelatingDocument |-> <<"ref", ref>>]>>,
            !.refs = @ \o <<DocRef(path_drawing, None, None, info),
                            DocRef(path_drawing, Str(drawing_id), "DRAWING", sheet_info)>>]

\* create_sheet_info(identification, building_name); the sheet is the last
\* document of the result
CreateSheetInfo(f, identification, building_name) ==
    LET sheet_info == Len(f.docs) + 1
    IN  [f EXCEPT
            !.docs = Append(@, DocInfo(identification, building_name,
                                       <<"General Arrangement">>, "SHEET")),
            !.rels = Append(@, [RelatedObjects |-> Project,
                                RelatingDocument |-> <<"info", sheet_info>>]),
            !.refs = @ \o <<DocRef(LayoutPath(identification, building_name), None,
                                   "LAYOUT", sheet_info),
                            DocRef(TitleblockPath, None, "TITLEBLOCK", sheet_info)>>]

\* A drawing: the annotation, its property set, its place on the sheet and
\* its group (the common part of the three create_* methods).
AddDrawing(f, a, sheet_info, drawing_id) ==
    LET annotation == Len(f.annotations) + 1
        f1 == [f EXCEPT !.annotations = Append(@, a)]
    IN  CreateDrawingGroup(AttachSheet(f1, annotation, sheet_info, drawing_id), annotation)

\* A create_* that forgets "drawing_id += 1".
SameDrawingId(drawing_id) == drawing_id

\* "drawing_id += 1", the identifier each create_* returns
NextDrawingId(drawing_id) == drawing_id + 1

\* create_space_labels writing the name TEXT on the space as well as on its
\* label.
CreateSpaceLabelsRenaming(f, storey, group) ==
    LET spaces == StoreyOf(f.buildings, storey).spaces
        n == Len(f.annotations)
        label(k) == Annotation(<<"TEXT">>, <<"TEXT">>, "EPset_Annotation", None, None,
                               None, <<storey[1], storey[2], k>>)
    IN  [f EXCEPT
            !.buildings[storey[1]].storeys[storey[2]].spaces =
                [k \in DOMAIN spaces |-> <<"TEXT">>],
            !.annotations = @ \o [k \in DOMAIN spaces |-> label(k)],
            !.groups[group].products = @ \o [k \in DOMAIN spaces |-> n + k]]

\* create_space_labels(storey, elevation, group): a TEXT annotation for every
\* space of the storey, added to the plan's group and assigned to the space
CreateSpaceLabels(f, storey, group) ==
    LET spaces == StoreyOf(f.buildings, storey).spaces
        n == Len(f.annotations)
        label(k) == Annotation(<<"TEXT">>, <<"TEXT">>, "EPset_Annotation", None, None,
                               None, <<storey[1], storey[2], k>>)
    IN  [f EXCEPT
            !.annotations = @ \o [k \in DOMAIN spaces |-> label(k)],
            !.groups[group].products = @ \o [k \in DOMAIN spaces |-> n + k]]

\* create_plan_drawing(storey, building_bbox, scale, sheet_info, drawing_id)
\* followed by create_space_labels: one iteration of the loop of line 752
CreatePlanDrawing(f, storey, sheet_info, drawing_id) ==
    LET f1 == AddDrawing(f, DrawingAnnotation(StoreyOf(f.buildings, storey).Name,
                                              "PLAN_VIEW", Scale, None),
                         sheet_info, drawing_id)
    IN  CreateSpaceLabels(f1, storey, Len(f1.groups))

\* The list of line 766 without its last direction.
DirectionsShort == <<"NORTH", "SOUTH", "WEST">>

\* The list generate_drawings iterates over (line 766)
Directions == <<"NORTH", "SOUTH", "WEST", "EAST">>

\* f'IfcTypeProduct, IfcProduct, location="{building.Name}"'
ElevationInclude(name) == <<"IfcTypeProduct, IfcProduct, location=">> \o name

\* f'IfcSite + IfcRoof, IfcWall, IfcSlab, location="{building.Name}"'
LocationInclude(name) == <<"IfcSite + IfcRoof, IfcWall, IfcSlab, location=">> \o name

\* f"{building.Name} {direction}"
ElevationName(name, direction) == name \o <<" ", direction>>

\* f"{building.Name} LOCATION"
LocationName(name) == name \o <<" ", "LOCATION">>

\* create_elevation_drawing(building, building_bbox, direction, sheet_info, drawing_id)
CreateElevationDrawing(f, building, direction, sheet_info, drawing_id) ==
    LET name == f.buildings[building].Name
    IN  AddDrawing(f, DrawingAnnotation(ElevationName(name, direction), "ELEVATION_VIEW",
                                        Scale, ElevationInclude(name)),
                   sheet_info, drawing_id)

\* create_location_plan(building, sheet_info, drawing_id)
CreateLocationPlan(f, building, sheet_info, drawing_id) ==
    LET name == f.buildings[building].Name
    IN  AddDrawing(f, DrawingAnnotation(LocationName(name), "PLAN_VIEW", Scale * 10,
                                        LocationInclude(name)),
                   sheet_info, drawing_id)

\* "if len(self.buildings) >= 1" in place of the test of line 776.
AtLeastOneBuilding(n) == n >= 1

\* "if len(self.buildings) > 1" (line 776)
MoreThanOneBuilding(n) == n > 1

\* f"A{str(sheet_id).zfill(3)}"
SheetIdentification(sheet_id) == <<"A">> \o ZFill(Str(sheet_id), 3)

(***************************************************************************)
(* The program's position and the objects it holds.                        *)
(***************************************************************************)
NoBBox == [raised |-> "unset", min |-> <<>>, mid |-> <<>>, max |-> <<>>]

NoGen == [contexts |-> <<>>, buildings |-> <<>>, bbox_all |-> NoBBox, dim_all |-> <<>>]

NoLoc == [sheet_id |-> 0, bi |-> 0, sheet_info |-> 0, building_bbox |-> NoBBox,
          storeys |-> <<>>, todo |-> <<>>, drawing_id |-> 0, di |-> 0]

Event(op, arg) == [op |-> op, arg |-> arg]

\* An "except Exception" in place of the clause of line 790.
CatchesAny(e) == TRUE

\* "except ImportError" (line 790)
Catches(e) == e = "ImportError"

\* Where an exception e raised at the current position takes main: into the
\* except body when it is raised in the try body and the clause matches,
\* out of the process otherwise.
Raised(e) ==
    IF mode = "try" /\ Catches(e)
    THEN [pc |-> "argcheck", mode |-> "except", exc |-> None]
    ELSE [pc |-> "crashed", mode |-> mode, exc |-> e]

Raise(e) ==
    /\ pc' = Raised(e).pc
    /\ mode' = Raised(e).mode
    /\ exc' = Raised(e).exc

\* sorted(...) of a set of numbers
SortedSeq(S) == [i \in 1..Cardinality(S) |-> CHOOSE x \in S : Cardinality({y \in S : y < x}) = i - 1]

\* The dictionaries the loop of lines 739-746 can build: each elevation is a
\* key, its value the storey of that elevation that the set hands out last.
StoreyDicts(bs, name) ==
    LET S == FilterStoreys(bs, name)
        E == {StoreyOf(bs, st).elevation : st \in S}
    IN  {d \in [E -> S] : \A e \in E : StoreyOf(bs, d[e]).elevation = e}

Direct == <<hosted, argv, ctx_rets, bbox_arg, bbox_out>>

(***************************************************************************)
(* DrawingGenerator.                                                       *)
(***************************************************************************)
\* DrawingGenerator.__init__(ifc_file)
Construct ==
    /\ pc = "construct"
    /\ LET c == EnsureContexts(ifc.contexts)
           sorted == Natsorted(ifc.buildings)
       IN  IF c.raised # None
           THEN /\ Raise(c.raised)
                /\ UNCHANGED <<ifc, gen, loc>>
           ELSE /\ ifc' = [ifc EXCEPT !.contexts = c.file]
                /\ \E items \in VisitOrders(ifc.buildings, sorted) :
                      LET b == GetBBox(items)
                      IN  IF b.raised # None
                          THEN /\ Raise(b.raised)
                               /\ UNCHANGED <<gen, loc>>
                          ELSE /\ gen' = [contexts |-> c.ret, buildings |-> sorted,
                                          bbox_all |-> b,
                                          dim_all |-> [i \in 1..3 |-> b.max[i] - b.min[i] + 2]]
                               /\ loc' = NoLoc
                               /\ pc' = "generate"
                               /\ UNCHANGED <<mode, exc>>
    /\ UNCHANGED <<events, Direct>>

\* generate_drawings, lines 727-749: the next building of the loop, its sheet,
\* its bounding box and its storeys
BeginBuilding ==
    /\ pc = "generate"
    /\ loc.bi < Len(gen.buildings)
    /\ LET building == gen.buildings[loc.bi + 1]
           name == ifc.buildings[building].Name
           sheet_id == loc.sheet_id + 1
           f == CreateSheetInfo(ifc, SheetIdentification(sheet_id), name)
       IN  /\ ifc' = f
           /\ \E items \in VisitOrders(ifc.buildings, <<building>>),
                 storeys \in StoreyDicts(ifc.buildings, name) :
                 LET b == GetBBox(items)
                     todo == SortedSeq(DOMAIN storeys)
                 IN  /\ loc' = [sheet_id |-> sheet_id, bi |-> loc.bi + 1,
                                sheet_info |-> Len(f.docs),
                                building_bbox |-> IF b.raised # None THEN NoBBox ELSE b,
                                storeys |-> IF b.raised # None THEN <<>> ELSE storeys,
                                todo |-> IF b.raised # None THEN <<>> ELSE todo,
                                drawing_id |-> 0, di |-> 0]
                     /\ IF b.raised # None
                        THEN Raise(b.raised)
                        ELSE /\ pc' = IF todo = <<>> THEN "elevations" ELSE "plans"
                             /\ UNCHANGED <<mode, exc>>
    /\ UNCHANGED <<events, gen, Direct>>

\* generate_drawings, lines 752-763: the plan of the next elevation
PlanDrawing ==
    /\ pc = "plans"
    /\ LET elevation == Head(loc.todo)
           storey == loc.storeys[elevation]
       IN  /\ ifc' = CreatePlanDrawing(ifc, storey, loc.sheet_info, loc.drawing_id)
           /\ loc' = [loc EXCEPT !.drawing_id = NextDrawingId(@), !.todo = Tail(@)]
           /\ pc' = IF Tail(loc.todo) = <<>> THEN "elevations" ELSE "plans"
    /\ UNCHANGED <<mode, exc, events, gen, Direct>>

\* generate_drawings, lines 766-773: the elevation of the next direction
ElevationDrawing ==
    /\ pc = "elevations"
    /\ LET direction == Directions[loc.di + 1]
       IN  /\ ifc' = CreateElevationDrawing(ifc, gen.buildings[loc.bi], direction,
                                            loc.sheet_info, loc.drawing_id)
           /\ loc' = [loc EXCEPT !.drawing_id = NextDrawingId(@), !.di = @ + 1]
           /\ pc' = IF loc.di + 1 = Len(Directions) THEN "location" ELSE "elevations"
    /\ UNCHANGED <<mode, exc, events, gen, Direct>>

\* generate_drawings, lines 776-779, more than one building
LocationPlan ==
    /\ pc = "location"
    /\ MoreThanOneBuilding(Len(gen.buildings))
    /\ ifc' = CreateLocationPlan(ifc, gen.buildings[loc.bi], loc.sheet_info, loc.drawing_id)
    /\ loc' = [loc EXCEPT !.drawing_id = NextDrawingId(@)]
    /\ pc' = "generate"
    /\ UNCHANGED <<mode, exc, events, gen, Direct>>

\* generate_drawings, line 776, a single building: no location plan
NoLocationPlan ==
    /\ pc = "location"
    /\ ~MoreThanOneBuilding(Len(gen.buildings))
    /\ pc' = "generate"
    /\ UNCHANGED <<ifc, loc, mode, exc, events, gen, Direct>>

\* generate_drawings returns: to main's next statement
Return ==
    /\ pc = "generate"
    /\ loc.bi = Len(gen.buildings)
    /\ pc' = IF mode = "except" THEN "write" ELSE "done"
    /\ UNCHANGED <<ifc, loc, mode, exc, events, gen, Direct>>

Generate ==
    \/ Construct
    \/ BeginBuilding
    \/ PlanDrawing
    \/ ElevationDrawing
    \/ LocationPlan
    \/ NoLocationPlan
    \/ Return

(***************************************************************************)
(* main.                                                                   *)
(***************************************************************************)
\* A test "len(sys.argv) < 3" in place of the one of line 791.
TooFewArguments(a) == Len(a) < 3

\* "len(sys.argv) != 3" (line 791)
WrongArgumentCount(a) == Len(a) # 3

\* sys.argv[1], the path main opens (line 796)
InputPath(a) == a[2]

\* Writing to sys.argv[1] in place of sys.argv[2].
WriteToInput(a) == a[2]

\* sys.argv[2], the path main writes (line 799)
OutputPath(a) == a[3]

\* lines 784-788: the import of the host's module; when it succeeds the model
\* is the one the host holds, when it fails ImportError is raised in the try
Import ==
    /\ pc = "import"
    /\ IF hosted
       THEN /\ events' = Append(events, Event("Ifc.get", None))
            /\ pc' = "construct"
            /\ UNCHANGED <<mode, exc>>
       ELSE /\ Raise("ImportError")
            /\ UNCHANGED events
    /\ UNCHANGED <<ifc, gen, loc, Direct>>

\* lines 791-793: the usage message and sys.exit(1)
Usage ==
    /\ pc = "argcheck"
    /\ WrongArgumentCount(argv)
    /\ events' = Append(events, Event("print", <<"Usage: ", argv[1], " input.ifc output.ifc">>))
    /\ pc' = "exit"
    /\ exc' = "SystemExit(1)"
    /\ UNCHANGED <<ifc, mode, gen, loc, Direct>>

\* line 796: ifcopenshell.open(sys.argv[1]), which raises when the file
\* cannot be read
Open ==
    /\ pc = "argcheck"
    /\ ~WrongArgumentCount(argv)
    /\ events' = Append(events, Event("open", InputPath(argv)))
    /\ \E readable \in BOOLEAN :
          IF readable
          THEN pc' = "construct" /\ UNCHANGED <<mode, exc>>
          ELSE Raise("OSError")
    /\ UNCHANGED <<ifc, gen, loc, Direct>>

\* line 799: ifc_file.write(sys.argv[2])
Write ==
    /\ pc = "write"
    /\ events' = Append(events, Event("write", OutputPath(argv)))
    /\ pc' = "done"
    /\ UNCHANGED <<ifc, mode, exc, gen, loc, Direct>>

(***************************************************************************)
(* Direct calls of the two static helpers.                                 *)
(***************************************************************************)
\* ContextManager.ensure_contexts(ifc_file), called again on the same file
EnsureContextsCall ==
    /\ pc = "ensure_contexts"
    /\ Len(ctx_rets) < MaxCalls
    /\ LET c == EnsureContexts(ifc.contexts)
       IN  /\ ifc' = [ifc EXCEPT !.contexts = c.file]
           /\ ctx_rets' = Append(ctx_rets, [raised |-> c.raised, ret |-> c.ret,
                                            before |-> ifc.contexts, after |-> c.file])
    /\ UNCHANGED <<hosted, argv, pc, mode, exc, events, gen, loc, bbox_arg, bbox_out>>

\* GeometryUtils.get_bbox(ifc_file, spatial_elements) on a list of buildings
GetBBoxCall ==
    /\ pc = "get_bbox"
    /\ \E spatial \in {<<b>> : b \in DOMAIN ifc.buildings} \cup {Natsorted(ifc.buildings)} :
          \E items \in VisitOrders(ifc.buildings, spatial) :
             /\ bbox_arg' = spatial
             /\ bbox_out' = GetBBox(items)
    /\ pc' = "returned"
    /\ UNCHANGED <<hosted, argv, ifc, mode, exc, events, gen, loc, ctx_rets>>

(***************************************************************************)
(* The models the program is run on.                                       *)
(***************************************************************************)
SeqsUpTo(S, n) == UNION {[1..k -> S] : k \in 0..n}

File(bs, ctxs) ==
    [buildings |-> bs, contexts |-> ctxs, docs |-> <<>>, refs |-> <<>>, rels |-> <<>>,
     annotations |-> <<>>, groups |-> <<>>]

B1 == <<"B", "1">>

B2 == <<"B", "2">>

B10 == <<"B", "1", "0">>

Ground == [Name |-> <<"G">>, elevation |-> 0, spaces |-> <<<<"R">>>>]

Ground2 == [Name |-> <<"G", "2">>, elevation |-> 0, spaces |-> <<>>]

First == [Name |-> <<"F">>, elevation |-> 3, spaces |-> <<>>]

StoreyLists == {<<>>, <<First>>, <<First, Ground>>, <<Ground, Ground2>>}

\* Two elements that count, and two of which one lies on the y axis.
ElemLists == {<<<<1, 1, 0>>, <<2, 2, 3>>>>, <<<<0, 2, 3>>, <<1, 1, 0>>>>}

\* A model and a body subcontext, as every model with geometry has
StdContexts == <<Context(1, "Model"), SubContext(2, "Body", "Model", "MODEL_VIEW", 1)>>

Names == {B1, B2, B10}

\* The lists of at most MaxBuildings buildings with different names
DistinctlyNamed(S) ==
    {bs \in SeqsUpTo(S, MaxBuildings) :
        \A i, j \in DOMAIN bs : bs[i].Name = bs[j].Name => i = j}

GenBuildings == [Name : Names, storeys : StoreyLists, elements : ElemLists]

MainBuildings == [Name : Names, storeys : {<<Ground>>}, elements : ElemLists]

\* In main's models the buildings are named B10, B2, B1 in file order
MainFiles ==
    {bs \in DistinctlyNamed(MainBuildings) :
        \A i \in DOMAIN bs : bs[i].Name = <<B10, B2, B1>>[i]}

Paths == {<<"a.ifc">>, <<"b.ifc">>}

Points == (0..MaxCoord) \X (0..MaxCoord) \X (0..1)

\* One or two buildings with at most n elements between them
BBoxBuildings(n) ==
    LET Bare(name, elements) == [Name |-> name, storeys |-> <<>>, elements |-> elements]
    IN  {<<Bare(B10, e)>> : e \in SeqsUpTo(Points, n)}
        \cup UNION {{<<Bare(B10, e1), Bare(B2, e2)>> :
                        e1 \in [1..k[1] -> Points], e2 \in [1..k[2] -> Points]} :
                    k \in {l \in (0..n) \X (0..n) : l[1] + l[2] <= n}}

\* The contexts a model can hold besides those ensure_contexts looks for
CtxPool ==
    {Context(1, "Model"),
     SubContext(2, "Body", "Model", "MODEL_VIEW", 1),
     SubContext(3, "Annotation", "Model", "SECTION_VIEW", 1),
     Context(4, "Plan"),
     SubContext(5, "Annotation", "Plan", "PLAN_VIEW", 4),
     SubContext(6, "Annotation", "Plan", "REFLECTED_PLAN_VIEW", 4),
     SubContext(7, "Body", "Plan", "PLAN_VIEW", 4)}

\* The subsets of the pool that hold the parent of each subcontext, by id
CtxLists ==
    {[i \in 1..Cardinality(S) |->
         CHOOSE c \in S : Cardinality({d \in S : d.id < c.id}) = i - 1] : S \in {T \in SUBSET CtxPool :
                            \A c \in T : c.ParentContext # 0 =>
                                \E d \in T : d.id = c.ParentContext}}

Idle ==
    /\ mode = "try"
    /\ exc = None
    /\ events = <<>>
    /\ gen = NoGen
    /\ loc = NoLoc
    /\ ctx_rets = <<>>
    /\ bbox_arg = <<>>
    /\ bbox_out = NoBBox

\* main, from the start of the process
Init ==
    /\ hosted \in BOOLEAN
    /\ argv \in {<<<<"endrawing.py">>>> \o a : a \in SeqsUpTo(Paths, MaxArgs)}
    /\ ifc \in {File(bs, ctxs) : bs \in MainFiles,
                                 ctxs \in {StdContexts, <<>>}}
    /\ pc = "import"
    /\ Idle

Next ==
    \/ Import
    \/ Usage
    \/ Open
    \/ Construct
    \/ BeginBuilding
    \/ PlanDrawing
    \/ ElevationDrawing
    \/ LocationPlan
    \/ NoLocationPlan
    \/ Return
    \/ Write

Spec == Init /\ [][Next]_vars

\* A DrawingGenerator on the model a host holds
InitGen ==
    /\ hosted = TRUE
    /\ argv = <<<<"blender">>>>
    /\ ifc \in {File(bs, StdContexts) : bs \in DistinctlyNamed(GenBuildings)}
    /\ pc = "construct"
    /\ Idle

SpecGen == InitGen /\ [][Generate]_vars

\* ensure_contexts on a model, repeatedly
InitCtx ==
    /\ hosted = TRUE
    /\ argv = <<<<"blender">>>>
    /\ ifc \in {File(<<>>, ctxs) : ctxs \in CtxLists}
    /\ pc = "ensure_contexts"
    /\ Idle

SpecCtx == InitCtx /\ [][EnsureContextsCall]_vars

\* get_bbox on the buildings of a model
InitBBox ==
    /\ hosted = TRUE
    /\ argv = <<<<"blender">>>>
    /\ ifc \in {File(bs, StdContexts) : bs \in BBoxBuildings(MaxItems)}
    /\ pc = "get_bbox"
    /\ Idle

SpecBBox == InitBBox /\ [][GetBBoxCall]_vars

(***************************************************************************)
(* What the properties speak about.                                        *)
(***************************************************************************)
Sheets == {i \in DOMAIN ifc.docs : ifc.docs[i].Purpose = "SHEET"}

\* The references that place a drawing on the sheet, in the order of creation
DrawingsOn(sheet) ==
    SortedSeq({r \in DOMAIN ifc.refs : /\ ifc.refs[r].Description = "DRAWING"
                                       /\ ifc.refs[r].ReferencedDocument = sheet})

\* The drawing annotations whose SVG the reference places
DrawnBy(r) ==
    {a \in DOMAIN ifc.annotations :
        /\ ifc.annotations[a].ObjectType = <<"DRAWING">>
        /\ DrawingPath(ifc.annotations[a].Name) = ifc.refs[r].Location}

IsElevation(r) == \E a \in DrawnBy(r) : ifc.annotations[a].TargetView = "ELEVATION_VIEW"

IsPlan(r) ==
    \E a \in DrawnBy(r) : /\ ifc.annotations[a].TargetView = "PLAN_VIEW"
                          /\ ifc.annotations[a].Include = None

IsLocation(r) ==
    \E a \in DrawnBy(r) : /\ ifc.annotations[a].TargetView = "PLAN_VIEW"
                          /\ ifc.annotations[a].Include # None

ElevationsIn(q) == {k \in DOMAIN q : IsElevation(q[k])}

PlansIn(q) == {k \in DOMAIN q : IsPlan(q[k])}

LocationsIn(q) == {k \in DOMAIN q : IsLocation(q[k])}

\* The sheets that carry the building's name
SheetsOf(b) == {i \in Sheets : ifc.docs[i].Name = ifc.buildings[b].Name}

\* generate_drawings has returned
Completed == pc \in {"write", "done"}

CompassPoints == {"NORTH", "SOUTH", "EAST", "WEST"}

Named(r, name) == ifc.refs[r].Location = <<"drawings/">> \o name \o <<".svg">>

HasEvent(op) == \E i \in DOMAIN events : events[i].op = op

(***************************************************************************)
(* C1: when generate_drawings has completed on a model of n buildings the  *)
(* model holds exactly n sheets, one for each building, and on each        *)
(* building's sheet exactly four elevation drawings, one named             *)
(* "<building name> <DIRECTION>" for each of NORTH, SOUTH, EAST and WEST.  *)
(***************************************************************************)
\* C1: after a completed run, n sheets, one per building, each with the four
\* elevations named after the building and the direction
C1_SheetPerBuilding ==
    Completed =>
        /\ Cardinality(Sheets) = Len(ifc.buildings)
        /\ \A b \in DOMAIN ifc.buildings :
              /\ Cardinality(SheetsOf(b)) = 1
              /\ \A s \in SheetsOf(b) :
                    LET q == DrawingsOn(s)
                    IN  /\ Cardinality(ElevationsIn(q)) = 4
                        /\ \A d \in CompassPoints :
                              Cardinality({k \in DOMAIN q :
                                  Named(q[k], ifc.buildings[b].Name \o <<" ", d>>)}) = 1

C1_Witness == Completed /\ Len(ifc.buildings) = 2 /\ Cardinality(Sheets) = 2

(***************************************************************************)
(* C2: standalone, with a number of arguments after the program name other *)
(* than two, main prints the usage message and exits with status 1; it     *)
(* opens no model, generates nothing and writes nothing.                   *)
(***************************************************************************)
Untouched == ifc.docs = <<>> /\ ifc.refs = <<>> /\ ifc.annotations = <<>> /\ gen = NoGen

\* C2: standalone with a wrong number of arguments: usage, exit status 1,
\* nothing opened, generated or written
C2_UsageExit ==
    (~hosted /\ Len(argv) - 1 # 2) =>
        /\ pc \in {"import", "argcheck", "exit"}
        /\ ~HasEvent("open") /\ ~HasEvent("write") /\ Untouched
        /\ pc = "exit" => /\ exc = "SystemExit(1)"
                          /\ Len(events) = 1 /\ events[1].op = "print"

C2_Witness == ~hosted /\ Len(argv) - 1 = 3 /\ pc = "exit" /\ HasEvent("print")

(***************************************************************************)
(* C3: standalone with exactly two arguments, the events are open(input    *)
(* path), generation, write(output path): the output is written once, when *)
(* generation has finished for every building, never when construction or  *)
(* generation raised.  As claimed, the input path is never written         *)
(* (C3_InputNeverWritten); as amended, no path but the output path is      *)
(* written, so the input path is written only when it is the output path.  *)
(***************************************************************************)
GenerationFinished ==
    /\ gen # NoGen
    /\ loc.bi = Len(ifc.buildings)
    /\ \A b \in DOMAIN ifc.buildings :
          \E s \in SheetsOf(b) : Cardinality(ElevationsIn(DrawingsOn(s))) = 4

\* C3, the part about order: open, then generation, then one write of the
\* output path when every building is done, and none after a raise
C3_Order ==
    (~hosted /\ Len(argv) - 1 = 2) =>
        /\ \A i \in DOMAIN events : events[i].op \in {"open", "write"}
        /\ Len(events) <= 2
        /\ Len(events) >= 1 => events[1] = Event("open", argv[2])
        /\ Len(events) = 2 => events[2] = Event("write", argv[3])
        /\ ~Untouched => HasEvent("open")
        /\ HasEvent("write") <=> pc = "done"
        /\ HasEvent("write") => GenerationFinished /\ exc = None
        /\ pc = "crashed" => ~HasEvent("write")

\* C3 as claimed: the order, and the input path is never written
C3_InputNeverWritten ==
    /\ C3_Order
    /\ (~hosted /\ Len(argv) - 1 = 2) =>
          \A i \in DOMAIN events : events[i].op = "write" => events[i].arg # argv[2]

\* C3 as amended: the order, and only the output path is written, hence the
\* input path only when it is the output path
C3_OnlyOutputWritten ==
    /\ C3_Order
    /\ (~hosted /\ Len(argv) - 1 = 2) =>
          \A i \in DOMAIN events : events[i].op = "write" =>
              /\ events[i].arg = argv[3]
              /\ argv[2] # argv[3] => events[i].arg # argv[2]

C3_Witness ==
    /\ ~hosted /\ pc = "done" /\ Len(events) = 2 /\ argv[2] # argv[3]
    /\ Len(ifc.buildings) = 2

(***************************************************************************)
(* C4: the mode is decided by the import alone: when the host's module     *)
(* imports, main works on the host's model and never checks arguments,     *)
(* prints the usage, exits, opens or writes a file; the command-line path  *)
(* is taken exactly when the import fails.                                 *)
(***************************************************************************)
CommandLinePath ==
    \/ pc \in {"argcheck", "exit", "write"}
    \/ HasEvent("print") \/ HasEvent("open") \/ HasEvent("write")
    \/ exc \in {"SystemExit(1)", "OSError"}

\* C4: the command-line path is taken exactly when the import fails, and the
\* host's model is used exactly when it succeeds
C4_ModeByImport ==
    /\ hosted => ~CommandLinePath
    /\ pc # "import" => (CommandLinePath <=> ~hosted)
    /\ pc # "import" => (HasEvent("Ifc.get") <=> hosted)

C4_Witness == hosted /\ pc = "crashed" /\ exc = "IndexError" /\ ifc.buildings # <<>>

(***************************************************************************)
(* C5: ensure_contexts creates the Plan context and the Plan/Annotation    *)
(* subcontext only when the model has none: a second call adds no entity   *)
(* and every call returns the same three contexts.  As claimed, the model  *)
(* then holds exactly one Plan context and exactly one Annotation          *)
(* subcontext under it (C5_ExactlyOne); as amended, it holds at least one  *)
(* of each, as many as before the call when it already held some.          *)
(***************************************************************************)
PlanContexts(ctxs) ==
    {i \in DOMAIN ctxs : ctxs[i].class = CtxClass /\ ctxs[i].ContextType = "Plan"}

AnnotationsUnder(ctxs, plan) ==
    {i \in DOMAIN ctxs : /\ ctxs[i].class = SubClass
                         /\ ctxs[i].ContextIdentifier = "Annotation"
                         /\ ctxs[i].ParentContext = plan}

ModelContexts(ctxs) ==
    {i \in DOMAIN ctxs : ctxs[i].class = CtxClass /\ ctxs[i].ContextType = "Model"}

AtLeastOne(n) == IF n = 0 THEN 1 ELSE n

\* C5, the part about repetition: with a Model context present no call
\* raises, a second call adds nothing, all calls return the same contexts,
\* and these are a Model context, a Plan context and an Annotation under it
C5_Repeatable ==
    \A k \in DOMAIN ctx_rets :
        LET c == ctx_rets[k]
        IN  ModelContexts(c.before) # {} =>
                /\ c.raised = None
                /\ k >= 2 => c.after = c.before /\ c.ret = ctx_rets[1].ret
                /\ \E i \in ModelContexts(c.after) : c.after[i].id = c.ret.model
                /\ \E i \in PlanContexts(c.after) : c.after[i].id = c.ret.plan
                /\ \E i \in AnnotationsUnder(c.after, c.ret.plan) :
                      c.after[i].id = c.ret.annotation

Considered ==
    {e \in UNION {FilterElements(ifc.buildings, ifc.buildings[bbox_arg[k]].Name) :
                     k \in DOMAIN bbox_arg} :
        Placement(ifc.buildings, e)[1] # 0 /\ Placement(ifc.buildings, e)[2] # 0}

\* C6: the returned box holds every counted element, min <= max, and mid is
\* the mean of min and max
C6_BoundingBox ==
    (pc = "returned" /\ bbox_out.raised = None) =>
        \A i \in 1..3 :
            /\ bbox_out.min[i] <= bbox_out.max[i]
            /\ bbox_out.mid[i].num * 2 = (bbox_out.min[i] + bbox_out.max[i]) * bbox_out.mid[i].den
            /\ \A e \in Considered :
                  /\ bbox_out.min[i] <= Placement(ifc.buildings, e)[i]
                  /\ Placement(ifc.buildings, e)[i] <= bbox_out.max[i]

(***************************************************************************)
(* C7: for every building, the number of plan drawings on its sheet is the *)
(* number of storeys located in the building, also when two storeys have   *)
(* the same elevation.                                                     *)
(***************************************************************************)
\* C7: after a completed run every sheet holds as many plans as its building
\* has storeys
C7_PlanPerStorey ==
    Completed =>
        \A b \in DOMAIN ifc.buildings :
            \A s \in SheetsOf(b) :
                Cardinality(PlansIn(DrawingsOn(s))) = Len(ifc.buildings[b].storeys)

(***************************************************************************)
(* C8: a location plan named "<building name> LOCATION" is created for a   *)
(* building exactly when the model has more than one building: n of them,  *)
(* one on each sheet, when n > 1, and none when n = 1.                     *)
(***************************************************************************)
LocationPlans ==
    {a \in DOMAIN ifc.annotations :
        \E b \in DOMAIN ifc.buildings :
            ifc.annotations[a].Name = ifc.buildings[b].Name \o <<" ", "LOCATION">>}

\* C8: location plans exist only with more than one building, and then one
\* on every sheet
C8_LocationPlans ==
    /\ LocationPlans # {} => Len(ifc.buildings) > 1
    /\ Completed =>
          /\ Cardinality(LocationPlans) = (IF Len(ifc.buildings) > 1 THEN Len(ifc.buildings) ELSE 0)
          /\ \A b \in DOMAIN ifc.buildings : \A s \in SheetsOf(b) :
                LET q == DrawingsOn(s)
                IN  /\ Cardinality(LocationsIn(q)) = (IF Len(ifc.buildings) > 1 THEN 1 ELSE 0)
                    /\ \A k \in LocationsIn(q) :
                          Named(q[k], ifc.buildings[b].Name \o <<" ", "LOCATION">>)

C8_Witness == Completed /\ Len(ifc.buildings) = 2 /\ Cardinality(LocationPlans) = 2

(***************************************************************************)
(* C9: sheets are created in the natural order of the building names, the  *)
(* k-th gets the identification "A" and k in three digits, and the         *)
(* identifications of one run are pairwise different.                      *)
(***************************************************************************)
RECURSIVE Decimal(_)
\* The number a string of digits writes
Decimal(s) == IF s = <<>> THEN 0 ELSE Decimal(SubSeq(s, 1, Len(s) - 1)) * 10 + DigitVal(s[Len(s)])

\* The names of the models are a "B" and a number: their natural order is
\* the order of the numbers
NameNumber(name) == Decimal(Tail(name))

ThreeDigits(k) == <<Digits[((k \div 100) % 10) + 1], Digits[((k \div 10) % 10) + 1], Digits[(k % 10) + 1]>>

SheetSeq == SortedSeq(Sheets)

\* C9: the k-th sheet is A00k and belongs to the k-th building in natural
\* order; identifications differ
C9_SheetOrder ==
    /\ \A k \in DOMAIN SheetSeq :
          /\ ifc.docs[SheetSeq[k]].Identification = <<"A">> \o ThreeDigits(k)
          /\ Cardinality({b \in DOMAIN ifc.buildings :
                 NameNumber(ifc.buildings[b].Name) < NameNumber(ifc.docs[SheetSeq[k]].Name)}) = k - 1
    /\ \A j, k \in DOMAIN SheetSeq :
          /\ j < k => NameNumber(ifc.docs[SheetSeq[j]].Name) < NameNumber(ifc.docs[SheetSeq[k]].Name)
          /\ j # k => ifc.docs[SheetSeq[j]].Identification # ifc.docs[SheetSeq[k]].Identification

C9_Witness ==
    /\ Completed /\ Len(ifc.buildings) = 2
    /\ ifc.buildings[1].Name = B10 /\ ifc.buildings[2].Name = B2
    /\ ifc.docs[SheetSeq[1]].Name = B2

(***************************************************************************)
(* C10: on each sheet the drawing identifiers are 0, 1, 2, ... without gap *)
(* or repeat, given first to the plans by ascending storey elevation, then *)
(* to the NORTH, SOUTH, WEST and EAST elevations, then to the location     *)
(* plan if there is one; the count starts at 0 on every sheet.             *)
(***************************************************************************)
CompassOrder == <<"NORTH", "SOUTH", "WEST", "EAST">>

\* The building whose sheet it is
BuildingOf(s) == CHOOSE b \in DOMAIN ifc.buildings : s \in SheetsOf(b)

\* The elevation of the storey a plan on the building's sheet shows
PlanElevation(b, r) ==
    LET st == CHOOSE t \in DOMAIN ifc.buildings[b].storeys : Named(r, ifc.buildings[b].storeys[t].Name)
    IN  ifc.buildings[b].storeys[st].elevation

\* Where the drawing stands in the order claimed; plans are ranked by their
\* storey's elevation below the elevations
Rank(b, r) ==
    IF IsPlan(r) THEN PlanElevation(b, r)
    ELSE IF IsElevation(r)
         THEN 1000 + (CHOOSE d \in DOMAIN CompassOrder :
                         Named(r, ifc.buildings[b].Name \o <<" ", CompassOrder[d]>>))
         ELSE 2000

\* C10: on every sheet the identifiers count from 0 in the order plans by
\* elevation, the four elevations, the location plan
C10_DrawingIds ==
    \A s \in Sheets :
        LET q == DrawingsOn(s)
            b == BuildingOf(s)
        IN  /\ \A k \in DOMAIN q : Decimal(ifc.refs[q[k]].Identification) = k - 1
            /\ \A k \in DOMAIN q : ifc.refs[q[k]].Identification = Str(k - 1)
            /\ \A j, k \in DOMAIN q : j < k => Rank(b, q[j]) < Rank(b, q[k])
            /\ \A k \in DOMAIN q : IsPlan(q[k]) \/ IsElevation(q[k]) \/ IsLocation(q[k])

C10_Witness ==
    /\ Completed
    /\ \E s \in Sheets :
          LET q == DrawingsOn(s)
          IN  /\ Len(q) = 7 /\ IsPlan(q[2]) /\ IsLocation(q[7])
              /\ ifc.buildings[BuildingOf(s)].storeys = <<First, Ground>>
    /\ \E s \in Sheets : s > 1 /\ Len(DrawingsOn(s)) >= 5

(***************************************************************************)
(* C11: constructing a DrawingGenerator and running generate_drawings      *)
(* succeeds on every model with at least one building: get_bbox returns a  *)
(* (min, mid, max) triple of three-coordinate points for every list it is  *)
(* given, also when fewer than two of the elements count, and no sheet is  *)
(* left in the model for a building whose drawings were not generated.     *)
(***************************************************************************)
IsTriple(b) == b.raised = None /\ Len(b.min) = 3 /\ Len(b.mid) = 3 /\ Len(b.max) = 3

Ended == pc \in {"done", "crashed"}

\* C11: with a building in the model nothing raises, every bounding box is a
\* triple of points, and at the end every sheet carries its drawings
C11_AlwaysSucceeds ==
    ifc.buildings # <<>> =>
        /\ pc # "crashed" /\ exc = None
        /\ gen # NoGen => IsTriple(gen.bbox_all)
        /\ pc \in {"plans", "elevations", "location"} => IsTriple(loc.building_bbox)
        /\ Ended => \A s \in Sheets : Cardinality(ElevationsIn(DrawingsOn(s))) = 4

(***************************************************************************)
(* C12: generation only adds to the model.  The buildings with their       *)
(* storeys, spaces and elements (names, placements, containment) stay as   *)
(* they are, the buildings and storeys iterated over are those of the      *)
(* model from start to end, and no step edits an entity that an earlier    *)
(* step or the model before the run holds: each list of entities only      *)
(* grows at its end.                                                       *)
(***************************************************************************)
IsPrefix(s, t) == Len(s) <= Len(t) /\ SubSeq(t, 1, Len(s)) = s

Range(s) == {s[i] : i \in DOMAIN s}

\* The storeys the loop of the current building holds
StoreysIterated == {loc.storeys[e] : e \in DOMAIN loc.storeys}

\* C12: every step leaves the buildings and all they contain unchanged, keeps
\* every entity already in the model as it is, and iterates over the
\* buildings and storeys of the model as they were at the start
C12_OnlyAdds ==
    [][/\ ifc'.buildings = ifc.buildings
       /\ IsPrefix(ifc.contexts, ifc'.contexts)
       /\ IsPrefix(ifc.docs, ifc'.docs)
       /\ IsPrefix(ifc.refs, ifc'.refs)
       /\ IsPrefix(ifc.rels, ifc'.rels)
       /\ IsPrefix(ifc.annotations, ifc'.annotations)
       /\ IsPrefix(ifc.groups, ifc'.groups)
       /\ gen # NoGen => gen'.buildings = gen.buildings
       /\ gen' # NoGen => /\ Range(gen'.buildings) = DOMAIN ifc.buildings
                          /\ Len(gen'.buildings) = Len(ifc.buildings)
       /\ pc' \in {"plans", "elevations"} =>
             /\ StoreysIterated' \subseteq FilterStoreys(ifc.buildings,
                                       ifc.buildings[gen.buildings[loc'.bi]].Name)
             /\ Range(loc'.todo) \subseteq DOMAIN loc'.storeys]_vars

\* A run over two buildings has finished, with contexts, sheets, drawings and
\* the label of a space added to the model
C12_Witness ==
    /\ pc = "done"
    /\ Len(ifc.buildings) = 2
    /\ Len(ifc.contexts) > Len(StdContexts)
    /\ Cardinality(Sheets) = 2
    /\ \E a \in DOMAIN ifc.annotations :
          /\ ifc.annotations[a].Name = <<"TEXT">>
          /\ ifc.annotations[a].product # None

====
